---- MODULE Spec2Model ----
(***************************************************************************)
(* Model of the radargram digitizing page (web/static digitize script):    *)
(* the drawn polylines held in the Leaflet feature group "drawn_items",    *)
(* their validation, reclassification and splitting, the export/import of  *)
(* the annotation document and the submit flow.                            *)
(*                                                                         *)
(* Conventions.                                                            *)
(*  - A vertex is a Leaflet LatLng, [lat |-> y, lng |-> x]; display        *)
(*    coordinates are integers.                                            *)
(*  - A document coordinate is <<x, y>> (GeoJSON order) with x an exact    *)
(*    fraction [n |-> num, d |-> den] in lowest terms, so that the         *)
(*    division by xscale done on export is not rounded away.               *)
(*  - JavaScript's undefined and null are the strings "undefined" and      *)
(*    "null".                                                              *)
(*  - A layer of drawn_items is identified by its position; the feature    *)
(*    group iterates in insertion order.                                   *)
(***************************************************************************)
EXTENDS Integers, Sequences, FiniteSets, TLC

VARIABLES
    phase,            \* "loading": setup_map awaits load_latest; "ready": all handlers registered
    drawn_items,      \* the L.FeatureGroup of drawn layers, in insertion order
    meta,             \* the metadata object of get_metadata (difficulty/comment mutable)
    data_saved,       \* setup_map's closure variable
    message,          \* the user_message calls of the handler that ran last, in order
    in_flight,        \* POSTs to /submit-digitized sent and not yet answered
    reader_pending,   \* FileReader.readAsText calls whose onload/onerror is still to come
    stray_markers,    \* TRUE when the map shows issue markers of layers that left drawn_items
    submit_snapshot,  \* history: drawn_items and data_saved when submit was last clicked,
                      \* and the document the last save or submit made
    arg,              \* input of the function under test (function-level specifications)
    res               \* its result

vars == <<phase, drawn_items, meta, data_saved, message, in_flight,
          reader_pending, stray_markers, submit_snapshot, arg, res>>

session_vars == <<phase, drawn_items, meta, data_saved, message, in_flight,
                  reader_pending, stray_markers, submit_snapshot>>

Undefined == "undefined"
Null == "null"

-----------------------------------------------------------------------------
(* Bounds *)

MaxLayers == 2        \* a line is drawn or split while drawn_items holds fewer layers
MaxInFlight == 2      \* unanswered submit requests
MaxReads == 1         \* file reads in progress
MaxVerts == 4         \* vertices of a polyline (function-level specifications)
MaxX == 3             \* largest x coordinate (function-level specifications)

-----------------------------------------------------------------------------
(* Classification registry *)

get_layer_classes ==
    [k \in {"firn_ice_interface", "water_table", "crevasse", "hyperbola"} |->
        CASE k = "firn_ice_interface" ->
                 [name |-> "Firn-ice interface", color |-> "#002EBD", key |-> k]
          [] k = "water_table" ->
                 [name |-> "Water table", color |-> "#CE00FF", key |-> k]
          [] k = "crevasse" ->
                 [name |-> "Crevasse", color |-> "#62F700", key |-> k]
          [] k = "hyperbola" ->
                 [name |-> "Hyperbola", color |-> "red", key |-> k]]

\* classes[kind] is undefined: reading .color or .name of it throws a TypeError
NoClass(kind) == kind \notin DOMAIN get_layer_classes

-----------------------------------------------------------------------------
(* Validator *)

LatLng(y, x) == [lat |-> y, lng |-> x]

\* Overhang with the comparisons strict
Overhang_strict(latlngs, i) ==
    LET increasing == latlngs[1].lng < latlngs[Len(latlngs)].lng
    IN  \/ (increasing /\ latlngs[i + 1].lng < latlngs[i].lng)
        \/ (~increasing /\ latlngs[i + 1].lng > latlngs[i].lng)

\* The loop test of validate_polyline for the JavaScript index i (1 .. n-1);
\* latlngs[i] of the code is latlngs[i + 1] here.
Overhang(latlngs, i) ==
    LET increasing == latlngs[1].lng < latlngs[Len(latlngs)].lng
    IN  \/ (increasing /\ latlngs[i + 1].lng <= latlngs[i].lng)
        \/ (~increasing /\ latlngs[i + 1].lng >= latlngs[i].lng)

\* validate_polyline naming the vertex the marker is put on, i - 1
validate_polyline_marker_index(latlngs) ==
    IF Len(latlngs) < 2
    THEN <<>>
    ELSE [j \in 1..Len(SelectSeq([k \in 1..(Len(latlngs) - 1) |-> k],
                                 LAMBDA i : Overhang(latlngs, i))) |->
            SelectSeq([k \in 1..(Len(latlngs) - 1) |-> k],
                      LAMBDA i : Overhang(latlngs, i))[j] - 1]

\* The issues returned: one per flagged index, the index standing for the text
\* "Line contains an overhang (vertex i)".
validate_polyline(latlngs) ==
    IF Len(latlngs) < 2
    THEN <<>>
    ELSE SelectSeq([k \in 1..(Len(latlngs) - 1) |-> k],
                   LAMBDA i : Overhang(latlngs, i))

-----------------------------------------------------------------------------
(* Layers *)

\* L.polyline(coords, ...): no properties yet, not on the map
L_polyline(coords) ==
    [latlngs |-> coords,
     properties |-> [kind |-> Undefined, color |-> Undefined,
                     name |-> Undefined, issues |-> <<>>],
     issue_markers |-> 0,
     on_map |-> FALSE]

\* change_layer_kind without the assignment of the name
change_layer_kind_no_name(layer, new_kind) ==
    IF NoClass(new_kind)
    THEN [layer EXCEPT !.properties.kind = new_kind]
    ELSE [layer EXCEPT !.properties.kind = new_kind,
                       !.properties.color = get_layer_classes[new_kind].color]

\* change_layer_kind; with an unregistered kind the kind is stored and the read
\* of class_props.color throws (see NoClass).
change_layer_kind(layer, new_kind) ==
    IF NoClass(new_kind)
    THEN [layer EXCEPT !.properties.kind = new_kind]
    ELSE [layer EXCEPT !.properties.kind = new_kind,
                       !.properties.color = get_layer_classes[new_kind].color,
                       !.properties.name = get_layer_classes[new_kind].name]

\* validate_polyline's effect on the layer it is given: its old markers are
\* removed from the map and one marker per issue is added.
WithMarkers(layer) ==
    [layer EXCEPT !.issue_markers = Len(validate_polyline(layer.latlngs))]

\* add_polyline_metadata without storing the issues
add_polyline_metadata_no_issues(layer, kind) == WithMarkers(change_layer_kind(layer, kind))

add_polyline_metadata(layer, kind) ==
    LET l1 == change_layer_kind(layer, kind)
        l2 == WithMarkers(l1)
    IN  [l2 EXCEPT !.properties.issues = validate_polyline(l2.latlngs)]

\* create_polyline for a registered kind: the new layer, on the map; the caller
\* appends it to drawn_items (drawn_items.addLayer).
create_polyline(coords, kind) ==
    [add_polyline_metadata(L_polyline(coords), kind) EXCEPT !.on_map = TRUE]

-----------------------------------------------------------------------------
(* Split operator *)

RECURSIVE split_coords_swapped(_, _, _, _, _, _)
\* split_coords pushing the cut as [x_coord, y_coord]
split_coords_swapped(latlngs, i, x_coord, y_coord, k, done) ==
    IF k > Len(latlngs)
    THEN <<>>
    ELSE LET pair == latlngs[k]
         IN  IF \/ (i = 0 /\ pair.lng > x_coord)
                \/ (i = 1 /\ pair.lng < x_coord)
             THEN (IF ~done THEN <<LatLng(x_coord, y_coord)>> ELSE <<>>)
                  \o split_coords_swapped(latlngs, i, x_coord, y_coord, k + 1, TRUE)
             ELSE <<pair>>
                  \o split_coords_swapped(latlngs, i, x_coord, y_coord, k + 1, done)

RECURSIVE split_coords(_, _, _, _, _, _)
\* The forEach of split_polyline for pass i (0 or 1) from vertex k on.
split_coords(latlngs, i, x_coord, y_coord, k, done) ==
    IF k > Len(latlngs)
    THEN <<>>
    ELSE LET pair == latlngs[k]
         IN  IF \/ (i = 0 /\ pair.lng > x_coord)
                \/ (i = 1 /\ pair.lng < x_coord)
             THEN (IF ~done THEN <<LatLng(y_coord, x_coord)>> ELSE <<>>)
                  \o split_coords(latlngs, i, x_coord, y_coord, k + 1, TRUE)
             ELSE <<pair>>
                  \o split_coords(latlngs, i, x_coord, y_coord, k + 1, done)

\* split_polyline on the layer at position p: the two children are created and
\* added, then the parent is taken off the map (map.removeLayer / layer.remove);
\* the feature group is not told, so the parent stays in drawn_items. For a
\* parent whose kind is not registered the first create_polyline throws and
\* nothing has changed.
split_polyline(items, p, x_coord, y_coord) ==
    IF NoClass(items[p].properties.kind) THEN items ELSE
    LET layer == items[p]
        childA == create_polyline(
                      split_coords(layer.latlngs, 0, x_coord, y_coord, 1, FALSE),
                      layer.properties.kind)
        childB == create_polyline(
                      split_coords(layer.latlngs, 1, x_coord, y_coord, 1, FALSE),
                      layer.properties.kind)
    IN  [items EXCEPT ![p].on_map = FALSE] \o <<childA, childB>>

-----------------------------------------------------------------------------
(* Serializer *)

RECURSIVE Gcd(_, _)
Gcd(a, b) == IF b = 0 THEN a ELSE Gcd(b, a % b)

\* The number n / d (n >= 0, d > 0) in lowest terms
Frac(n, d) == [n |-> n \div Gcd(n, d), d |-> d \div Gcd(n, d)]

\* layer.toGeoJSON(): a LineString with [lng, lat] pairs
toGeoJSON(layer) ==
    [type |-> "Feature",
     geometry |-> [type |-> "LineString",
                   coordinates |-> [k \in 1..Len(layer.latlngs) |->
                       <<Frac(layer.latlngs[k].lng, 1), layer.latlngs[k].lat>>]],
     properties |-> layer.properties]

\* "Apply xscaling" of make_feature_save_json on one coordinate pair
scale_down(coords, xscale) ==
    <<Frac(coords[1].n, coords[1].d * xscale), coords[2]>>

\* make_feature_save_json over the layers on the map (map.eachLayer)
make_feature_save_json_on_map(items, m) ==
    LET shown == SelectSeq(items, LAMBDA l : l.on_map)
        features == [i \in 1..Len(shown) |-> toGeoJSON(shown[i])]
        scaled ==
            IF m.xscale # 1
            THEN [i \in 1..Len(features) |->
                    [features[i] EXCEPT !.geometry.coordinates =
                        [k \in 1..Len(@) |-> scale_down(@[k], m.xscale)]]]
            ELSE features
    IN  [date_modified |-> "now",
         height |-> m.height,
         width |-> m.width,
         difficulty |-> m.difficulty,
         comment |-> IF m.comment \in {Undefined, Null, ""} THEN Null ELSE m.comment,
         radar_key |-> m.radar_key,
         features |-> [type |-> "FeatureCollection", features |-> scaled]]

make_feature_save_json(items, m) ==
    LET features == [i \in 1..Len(items) |-> toGeoJSON(items[i])]
        scaled ==
            IF m.xscale # 1
            THEN [i \in 1..Len(features) |->
                    [features[i] EXCEPT !.geometry.coordinates =
                        [k \in 1..Len(@) |-> scale_down(@[k], m.xscale)]]]
            ELSE features
    IN  [date_modified |-> "now",
         height |-> m.height,
         width |-> m.width,
         difficulty |-> m.difficulty,
         comment |-> IF m.comment \in {Undefined, Null, ""} THEN Null ELSE m.comment,
         radar_key |-> m.radar_key,
         features |-> [type |-> "FeatureCollection", features |-> scaled]]

\* user_message(message, feedback); the count interpolated into the "Loaded"
\* texts is left out of the text.
user_message(text, feedback) == [text |-> text, feedback |-> feedback]

\* feature_kind with the lookup by name done for every feature
feature_kind_by_name(feature_geojson) ==
    LET kind == feature_geojson.properties.kind
        named == {kc \in DOMAIN get_layer_classes :
                     get_layer_classes[kc].name = feature_geojson.properties.name}
    IN  IF named = {} THEN kind ELSE CHOOSE kc \in named : TRUE

\* The kind a document feature is loaded with: properties.kind, or, when that
\* is undefined or null, the registry key whose name is properties.name.
feature_kind(feature_geojson) ==
    LET kind == feature_geojson.properties.kind
        named == {kc \in DOMAIN get_layer_classes :
                     get_layer_classes[kc].name = feature_geojson.properties.name}
    IN  IF kind \in {Undefined, Null}
        THEN (IF named = {} THEN kind ELSE CHOOSE kc \in named : TRUE)
        ELSE kind

\* scale_up without the multiplication
scale_up_unscaled(pair, xscale) == LatLng(pair[2], pair[1].n \div pair[1].d)

\* coords.push([pair[1], pair[0] * meta["xscale"]])
scale_up(pair, xscale) == LatLng(pair[2], (pair[1].n * xscale) \div pair[1].d)

RECURSIVE load_features(_, _, _, _)
\* The feature loop of load_digitized_inner from feature k on; items is the
\* content of drawn_items so far.
load_features(feats, k, m, items) ==
    IF k > Len(feats)
    THEN [drawn_items |-> items, message |-> user_message("Loaded line(s)", Null)]
    ELSE LET feature_geojson == feats[k]
             kind == feature_kind(feature_geojson)
             coords == [j \in 1..Len(feature_geojson.geometry.coordinates) |->
                           scale_up(feature_geojson.geometry.coordinates[j], m.xscale)]
         IN  IF feature_geojson.geometry.type = "LineString"
             THEN IF NoClass(kind)
                  THEN \* create_polyline throws; caught by load_digitized_inner
                       [drawn_items |-> items,
                        message |-> user_message(
                            "Error parsing data. Please check your file", "error")]
                  ELSE load_features(feats, k + 1, m,
                                     Append(items, create_polyline(coords, kind)))
             ELSE [drawn_items |-> items,
                   message |-> user_message(
                       "Skipped loading of one feature as it was the wrong type",
                       "error")]

\* Some layer of items has issue markers on the map
HasMarkers(items) == \E i \in 1..Len(items) : items[i].issue_markers > 0

\* misaligned_key without the height
misaligned_key_no_height(data, m) ==
    IF data.radar_key # m.radar_key THEN "radar_key"
    ELSE IF data.width # m.width THEN "width"
    ELSE ""

\* The first key of ["radar_key", "width", "height"] with data[key] != meta[key],
\* or "" when the three align (both sides carry a string for radar_key and a
\* number for width and height)
misaligned_key(data, m) ==
    IF data.radar_key # m.radar_key THEN "radar_key"
    ELSE IF data.width # m.width THEN "width"
    ELSE IF data.height # m.height THEN "height"
    ELSE ""

\* data["features"] of a document that has no such key (a record, as a present
\* collection is)
NoFeatures == [type |-> Undefined]

\* load_digitized_inner without drawn_items.clearLayers()
load_digitized_inner_merge(data, m, items, stray) ==
    IF misaligned_key(data, m) # ""
    THEN [meta |-> m, drawn_items |-> items, stray_markers |-> stray,
          message |-> user_message(
              IF misaligned_key(data, m) = "radar_key"
              THEN "Error loading data: radar_key does not align with expected radar_key"
              ELSE IF misaligned_key(data, m) = "width"
              THEN "Error loading data: width does not align with expected width"
              ELSE "Error loading data: height does not align with expected height",
              "error")]
    ELSE LET m2 == [m EXCEPT !.comment = data.comment,
                             !.difficulty = data.difficulty]
         IN  IF data.features = NoFeatures
             THEN \* data["features"]["features"] throws; caught
                  [meta |-> m2, drawn_items |-> items, stray_markers |-> stray,
                   message |-> user_message(
                       "Error parsing data. Please check your file", "error")]
             ELSE LET r == load_features(data.features.features, 1, m2, items)
                  IN  [meta |-> m2, drawn_items |-> r.drawn_items,
                       stray_markers |-> stray, message |-> r.message]

\* load_digitized_inner: the session after it ran on document data
load_digitized_inner(data, m, items, stray) ==
    IF misaligned_key(data, m) # ""
    THEN [meta |-> m, drawn_items |-> items, stray_markers |-> stray,
          message |-> user_message(
              IF misaligned_key(data, m) = "radar_key"
              THEN "Error loading data: radar_key does not align with expected radar_key"
              ELSE IF misaligned_key(data, m) = "width"
              THEN "Error loading data: width does not align with expected width"
              ELSE "Error loading data: height does not align with expected height",
              "error")]
    ELSE LET m2 == [m EXCEPT !.comment = data.comment,
                             !.difficulty = data.difficulty]
             \* drawn_items.clearLayers() leaves the issue markers on the map
             stray2 == stray \/ HasMarkers(items)
         IN  IF data.features = NoFeatures
             THEN \* data["features"]["features"] throws; caught
                  [meta |-> m2, drawn_items |-> <<>>, stray_markers |-> stray2,
                   message |-> user_message(
                       "Error parsing data. Please check your file", "error")]
             ELSE LET r == load_features(data.features.features, 1, m2, <<>>)
                  IN  [meta |-> m2, drawn_items |-> r.drawn_items,
                       stray_markers |-> stray2, message |-> r.message]

-----------------------------------------------------------------------------
(* Inputs of the session specification *)

\* Lines the user draws or edits a layer into: one without, one with an overhang
DrawLines ==
    { <<LatLng(0, 0), LatLng(0, 2)>>,
      <<LatLng(0, 0), LatLng(0, 2), LatLng(0, 1)>> }

\* Kinds selected in the class selector or picked in the popup
KindInputs == {"water_table", "crevasse"}

\* Popup locations a split is requested at
SplitPoints == { LatLng(0, 1) }

Difficulties == {"easy"}

\* xscale of the session's radargram
XScales == {2}

LineFeature(xs, kind, name) ==
    [type |-> "Feature",
     geometry |-> [type |-> "LineString",
                   coordinates |-> [k \in 1..Len(xs) |-> <<Frac(xs[k], 1), 0>>]],
     properties |-> [kind |-> kind, name |-> name, color |-> Undefined,
                     issues |-> <<>>]]

PointFeature ==
    [type |-> "Feature",
     geometry |-> [type |-> "Point", coordinates |-> <<>>],
     properties |-> [kind |-> "water_table", name |-> "Water table",
                     color |-> "#CE00FF", issues |-> <<>>]]

Document(key, w, h, difficulty, comment, feats) ==
    [date_modified |-> "then", radar_key |-> key, width |-> w, height |-> h,
     difficulty |-> difficulty, comment |-> comment,
     features |-> [type |-> "FeatureCollection", features |-> feats]]

\* The session's radargram
SessionMeta(xscale) ==
    [radar_key |-> "b", width |-> 4, height |-> 2, xscale |-> xscale,
     difficulty |-> Undefined, comment |-> Undefined]

\* Documents a chosen file can hold
FileDocs ==
    { \* a document of this radargram
      Document("b", 4, 2, "easy", "c", <<LineFeature(<<0, 1>>, "crevasse", "Crevasse")>>),
      \* of another radargram, or of other dimensions
      Document("a", 4, 2, "easy", "c", <<LineFeature(<<0, 1>>, "crevasse", "Crevasse")>>),
      Document("b", 5, 2, "easy", "c", <<LineFeature(<<0, 1>>, "crevasse", "Crevasse")>>),
      Document("b", 4, 3, "easy", "c", <<LineFeature(<<0, 1>>, "crevasse", "Crevasse")>>),
      \* a point before a line
      Document("b", 4, 2, "easy", "c",
               <<PointFeature, LineFeature(<<0, 1>>, "water_table", "Water table")>>),
      \* an early document: no difficulty, no comment, no kind on its line
      Document("b", 4, 2, Undefined, Undefined,
               <<LineFeature(<<0, 1>>, Undefined, "Water table")>>) }

\* Documents the backend can hold as the latest submission (the second from
\* before the radargram was processed anew with another width)
LatestDocs ==
    { Document("b", 4, 2, "easy", "c",
               <<LineFeature(<<0, 1>>, "water_table", "Water table")>>),
      Document("b", 5, 2, "easy", "c",
               <<LineFeature(<<0, 1>>, "water_table", "Water table")>>) }

\* Answers to the POST: [status, json] with json saying whether the body parses
\* as JSON, or the fetch failing
Responses ==
    { [status |-> 200, json |-> TRUE],
      [status |-> 401, json |-> FALSE],
      [status |-> 500, json |-> TRUE],
      [status |-> 500, json |-> FALSE],
      [status |-> 0, json |-> FALSE] }

\* No document was made by the handler that ran last
NoDocument == [date_modified |-> Undefined]

NoSnapshot == [taken |-> FALSE, drawn_items |-> <<>>, data_saved |-> TRUE,
               doc |-> NoDocument]

-----------------------------------------------------------------------------
(* Session: handlers *)

Init ==
    /\ phase = "loading"
    /\ drawn_items = <<>>
    /\ meta \in {SessionMeta(xs) : xs \in XScales}
    /\ data_saved = TRUE
    /\ message = <<>>
    /\ in_flight = 0
    /\ reader_pending = 0
    /\ stray_markers = FALSE
    /\ submit_snapshot = NoSnapshot
    /\ arg = <<>>
    /\ res = <<>>

RemoveAt(seq, p) == SubSeq(seq, 1, p - 1) \o SubSeq(seq, p + 1, Len(seq))

\* data_saved after a draw event: the handlers of setup_map that clear it are
\* registered once load_latest is through
after_draw_event == IF phase = "ready" THEN FALSE ELSE data_saved

\* L.Draw.Event.CREATED: the handler of setup_draw_features, then setup_map's
Created(coords, kind) ==
    /\ Len(drawn_items) < MaxLayers
    /\ drawn_items' = Append(drawn_items,
           [add_polyline_metadata(L_polyline(coords), kind) EXCEPT !.on_map = TRUE])
    /\ data_saved' = after_draw_event
    /\ submit_snapshot' = NoSnapshot
    /\ message' = <<>>
    /\ UNCHANGED <<phase, meta, in_flight, reader_pending, stray_markers,
                   arg, res>>

\* L.Draw.Event.EDITED for the layer at p, whose vertices the user moved
Edited(p, coords) ==
    /\ p \in 1..Len(drawn_items)
    /\ drawn_items[p].on_map
    /\ coords # drawn_items[p].latlngs
    /\ LET moved == WithMarkers([drawn_items[p] EXCEPT !.latlngs = coords])
       IN  drawn_items' = [drawn_items EXCEPT ![p] =
               [moved EXCEPT !.properties.issues = validate_polyline(coords)]]
    /\ data_saved' = after_draw_event
    /\ submit_snapshot' = NoSnapshot
    /\ message' = <<>>
    /\ UNCHANGED <<phase, meta, in_flight, reader_pending, stray_markers,
                   arg, res>>

\* Deleted without the removal of the issue markers
Deleted_keeps_markers(p) ==
    /\ p \in 1..Len(drawn_items)
    /\ drawn_items[p].on_map
    /\ drawn_items' = RemoveAt(drawn_items, p)
    /\ stray_markers' = (stray_markers \/ drawn_items[p].issue_markers > 0)
    /\ data_saved' = after_draw_event
    /\ submit_snapshot' = NoSnapshot
    /\ message' = <<>>
    /\ UNCHANGED <<phase, meta, in_flight, reader_pending, arg, res>>

\* L.Draw.Event.DELETED for the layer at p: Leaflet.Draw took it out of the
\* feature group, the handler removes its issue markers
Deleted(p) ==
    /\ p \in 1..Len(drawn_items)
    /\ drawn_items[p].on_map
    /\ drawn_items' = RemoveAt(drawn_items, p)
    /\ data_saved' = after_draw_event
    /\ submit_snapshot' = NoSnapshot
    /\ message' = <<>>
    /\ UNCHANGED <<phase, meta, in_flight, reader_pending, stray_markers,
                   arg, res>>

\* event.target.key of a click in a class button of the popup: the button's key,
\* or undefined when the click is on the colour box inside the button
TargetKeys == KindInputs \cup {Undefined}

\* A class button of the popup of the layer at p
Reclassify(p, new_kind) ==
    /\ p \in 1..Len(drawn_items)
    /\ drawn_items[p].on_map
    /\ drawn_items' = [drawn_items EXCEPT ![p] = change_layer_kind(@, new_kind)]
    /\ submit_snapshot' = NoSnapshot
    /\ message' = <<>>
    /\ UNCHANGED <<phase, meta, data_saved, in_flight, reader_pending,
                   stray_markers, arg, res>>

\* "Split line here" in the popup of the layer at p, confirmed
Split(p, at) ==
    /\ p \in 1..Len(drawn_items)
    /\ drawn_items[p].on_map
    /\ Len(drawn_items) < MaxLayers
    /\ drawn_items' = split_polyline(drawn_items, p, at.lng, at.lat)
    /\ submit_snapshot' = NoSnapshot
    /\ message' = <<>>
    /\ UNCHANGED <<phase, meta, data_saved, in_flight, reader_pending,
                   stray_markers, arg, res>>

\* document.getElementById("response-text").innerText = text: the text alone,
\* the colour of the last feedback stays
response_text(text) == [text |-> text, feedback |-> "kept"]

\* Save with the x of every layer divided by xscale in place
Save_scales_in_place ==
    /\ phase = "ready"
    /\ IF Len(drawn_items) = 0
       THEN /\ message' = <<response_text("Save failed: project is empty")>>
            /\ UNCHANGED <<data_saved, drawn_items>>
            /\ submit_snapshot' = NoSnapshot
       ELSE /\ data_saved' = TRUE
            /\ message' = <<>>
            /\ drawn_items' = [i \in 1..Len(drawn_items) |->
                   [drawn_items[i] EXCEPT !.latlngs =
                       [k \in 1..Len(@) |-> LatLng(@[k].lat, @[k].lng \div meta.xscale)]]]
            /\ submit_snapshot' =
                   [NoSnapshot EXCEPT !.doc = make_feature_save_json(drawn_items, meta)]
    /\ UNCHANGED <<phase, meta, in_flight, reader_pending, stray_markers, arg, res>>

\* save-button onclick
Save ==
    /\ phase = "ready"
    /\ IF Len(drawn_items) = 0
       THEN /\ message' = <<response_text("Save failed: project is empty")>>
            /\ UNCHANGED data_saved
            /\ submit_snapshot' = NoSnapshot
       ELSE /\ data_saved' = TRUE
            /\ message' = <<>>
            /\ submit_snapshot' =
                   [NoSnapshot EXCEPT !.doc = make_feature_save_json(drawn_items, meta)]
    /\ UNCHANGED <<phase, drawn_items, meta, in_flight, reader_pending,
                   stray_markers, arg, res>>

\* load-button change: load_digitized starts the read (when a file was chosen)
\* and returns; then data_saved is cleared
LoadChange(has_file) ==
    /\ phase = "ready"
    /\ IF has_file
       THEN /\ reader_pending < MaxReads
            /\ reader_pending' = reader_pending + 1
       ELSE UNCHANGED reader_pending
    /\ data_saved' = FALSE
    /\ submit_snapshot' = NoSnapshot
    /\ message' = <<>>
    /\ UNCHANGED <<phase, drawn_items, meta, in_flight, stray_markers,
                   arg, res>>

\* reader.onload with a file that parses to the document data
ReaderOnload(data) ==
    /\ reader_pending > 0
    /\ LET r == load_digitized_inner(data, meta, drawn_items, stray_markers)
       IN  /\ meta' = r.meta
           /\ drawn_items' = r.drawn_items
           /\ stray_markers' = r.stray_markers
           /\ message' = <<r.message>>
    /\ reader_pending' = reader_pending - 1
    /\ submit_snapshot' = NoSnapshot
    /\ UNCHANGED <<phase, data_saved, in_flight, arg, res>>

\* reader.onload with a file that is not JSON, or reader.onerror
ReaderFails(unreadable) ==
    /\ reader_pending > 0
    /\ message' = IF unreadable
                  THEN <<user_message("Error reading file. Please try again", "error")>>
                  ELSE <<user_message(
                           "Error parsing loaded JSON. Please check your file", "error")>>
    /\ reader_pending' = reader_pending - 1
    /\ submit_snapshot' = NoSnapshot
    /\ UNCHANGED <<phase, drawn_items, meta, data_saved, in_flight, stray_markers,
                   arg, res>>

\* meta.difficulty after load_latest: taken from the radio buttons (radio: the
\* checked value, or null) when it is undefined or null
setup_difficulty(m, radio) ==
    IF m.difficulty \in {Undefined, Null}
    THEN [m EXCEPT !.difficulty = radio]
    ELSE m

\* load_latest answered with a document, and the rest of setup_map
LatestLoaded(latest, radio) ==
    /\ phase = "loading"
    /\ LET r == load_digitized_inner(latest, meta, drawn_items, stray_markers)
       IN  /\ meta' = setup_difficulty(r.meta, radio)
           /\ drawn_items' = r.drawn_items
           /\ stray_markers' = r.stray_markers
           /\ message' = <<r.message, user_message("Loaded the last submission", Null)>>
    /\ phase' = "ready"
    /\ UNCHANGED <<data_saved, in_flight, reader_pending, submit_snapshot, arg, res>>

\* LatestNone with the empty document handed to the import, the set cleared
LatestNone_clears(radio) ==
    /\ phase = "loading"
    /\ meta' = setup_difficulty(meta, radio)
    /\ drawn_items' = <<>>
    /\ stray_markers' = (stray_markers \/ HasMarkers(drawn_items))
    /\ phase' = "ready"
    /\ message' = <<>>
    /\ UNCHANGED <<data_saved, in_flight, reader_pending, submit_snapshot, arg, res>>

\* load_latest answered with {} or failing, and the rest of setup_map
LatestNone(radio) ==
    /\ phase = "loading"
    /\ meta' = setup_difficulty(meta, radio)
    /\ phase' = "ready"
    /\ message' = <<>>
    /\ UNCHANGED <<drawn_items, data_saved, in_flight, reader_pending,
                   stray_markers, submit_snapshot, arg, res>>

\* The three tests of submit_button.onclick, in order: the message of the first
\* that fails, or "" when the click goes on to the confirmation
submit_gate(m, items) ==
    IF m.difficulty = Null
    THEN "Please choose a difficulty before submitting"
    ELSE IF Len(items) = 0
    THEN "Submit failed: project is empty"
    ELSE IF \E i \in 1..Len(items) : Len(validate_polyline(items[i].latlngs)) > 0
    THEN "Submit failed: line(s) have unfixed issues"
    ELSE ""

\* The layers after the gate validated each (markers redrawn, issues not stored)
gate_validated(m, items) ==
    IF m.difficulty = Null \/ Len(items) = 0
    THEN items
    ELSE [i \in 1..Len(items) |-> WithMarkers(items[i])]

\* submit-button onclick, rejected by the gate
SubmitRejected ==
    /\ phase = "ready"
    /\ submit_gate(meta, drawn_items) # ""
    /\ message' = <<user_message(submit_gate(meta, drawn_items), "error")>>
    /\ drawn_items' = gate_validated(meta, drawn_items)
    /\ submit_snapshot' = NoSnapshot
    /\ UNCHANGED <<phase, meta, data_saved, in_flight, reader_pending,
                   stray_markers, arg, res>>

\* submit-button onclick past the gate, the confirmation declined
SubmitDeclined ==
    /\ phase = "ready"
    /\ submit_gate(meta, drawn_items) = ""
    /\ drawn_items' = gate_validated(meta, drawn_items)
    /\ submit_snapshot' = NoSnapshot
    /\ message' = <<>>
    /\ UNCHANGED <<phase, meta, data_saved, in_flight, reader_pending,
                   stray_markers, arg, res>>

\* submit-button onclick past the gate and confirmed: the POST is sent and
\* data_saved is set
SubmitSent ==
    /\ phase = "ready"
    /\ submit_gate(meta, drawn_items) = ""
    /\ in_flight < MaxInFlight
    /\ drawn_items' = gate_validated(meta, drawn_items)
    /\ in_flight' = in_flight + 1
    /\ data_saved' = TRUE
    /\ submit_snapshot' = [taken |-> TRUE, drawn_items |-> drawn_items,
                           data_saved |-> data_saved,
                           doc |-> make_feature_save_json(drawn_items, meta)]
    /\ message' = <<>>
    /\ UNCHANGED <<phase, meta, reader_pending, stray_markers, arg, res>>

\* What submit_digitized tells the user for an answer
submit_digitized(response) ==
    IF response.status = 0
    THEN user_message("An erorr occurred submitting!", "error")
    ELSE IF response.status = 401
    THEN user_message("Not logged in! Please save the data, log in, and try again.",
                      "error")
    ELSE IF response.json
    THEN user_message("result.message", "success")
    ELSE user_message("An erorr occurred submitting!", "error")

\* The POST is answered (status 0: the fetch failed)
SubmitAnswered(response) ==
    /\ in_flight > 0
    /\ in_flight' = in_flight - 1
    /\ message' = <<submit_digitized(response)>>
    /\ UNCHANGED <<phase, drawn_items, meta, data_saved, reader_pending,
                   stray_markers, submit_snapshot, arg, res>>

\* user-comment change
CommentChange(value) ==
    /\ phase = "ready"
    /\ meta' = [meta EXCEPT !.comment = value]
    /\ submit_snapshot' = NoSnapshot
    /\ message' = <<>>
    /\ UNCHANGED <<phase, drawn_items, data_saved, in_flight,
                   reader_pending, stray_markers, arg, res>>

\* digitize-difficulty-form change
DifficultyChange(value) ==
    /\ phase = "ready"
    /\ meta' = [meta EXCEPT !.difficulty = value]
    /\ submit_snapshot' = NoSnapshot
    /\ message' = <<>>
    /\ UNCHANGED <<phase, drawn_items, data_saved, in_flight,
                   reader_pending, stray_markers, arg, res>>

\* beforeunload: the handler calls event.preventDefault (the browser warns)
beforeunload(saved) == ~saved

Next ==
    \/ \E coords \in DrawLines, kind \in KindInputs : Created(coords, kind)
    \/ \E p \in 1..MaxLayers, coords \in DrawLines : Edited(p, coords)
    \/ \E p \in 1..MaxLayers : Deleted(p)
    \/ \E p \in 1..MaxLayers, kind \in TargetKeys : Reclassify(p, kind)
    \/ \E p \in 1..MaxLayers, at \in SplitPoints : Split(p, at)
    \/ Save
    \/ \E has_file \in BOOLEAN : LoadChange(has_file)
    \/ \E data \in FileDocs : ReaderOnload(data)
    \/ \E unreadable \in BOOLEAN : ReaderFails(unreadable)
    \/ \E latest \in LatestDocs, radio \in Difficulties \cup {Null} :
           LatestLoaded(latest, radio)
    \/ \E radio \in Difficulties \cup {Null} : LatestNone(radio)
    \/ SubmitRejected
    \/ SubmitDeclined
    \/ SubmitSent
    \/ \E response \in Responses : SubmitAnswered(response)
    \/ \E value \in {"c"} : CommentChange(value)
    \/ \E value \in Difficulties : DifficultyChange(value)

Spec == Init /\ [][Next]_vars

-----------------------------------------------------------------------------
(* Function-level specifications: one call of a function on an input drawn   *)
(* from a bounded set, the session left as constructed                       *)

Idle ==
    /\ phase = "loading"
    /\ drawn_items = <<>>
    /\ meta = SessionMeta(1)
    /\ data_saved = TRUE
    /\ message = <<>>
    /\ in_flight = 0
    /\ reader_pending = 0
    /\ stray_markers = FALSE
    /\ submit_snapshot = NoSnapshot

\* Vertex sequences of up to n vertices with x in 0..MaxX (y does not enter
\* validation or the passes of a split)
Polylines(n) ==
    UNION { [1..len -> {LatLng(0, x) : x \in 0..MaxX}] : len \in 0..n }

ValidateInit ==
    /\ Idle
    /\ arg \in {[latlngs |-> l] : l \in Polylines(MaxVerts)}
    /\ res = [done |-> FALSE]

ValidateCall ==
    /\ ~res.done
    /\ res' = [done |-> TRUE, issues |-> validate_polyline(arg.latlngs)]
    /\ UNCHANGED <<session_vars, arg>>

SpecValidate == ValidateInit /\ [][ValidateCall]_vars

\* A drawn line and a popup location on or off it
SplitInit ==
    /\ Idle
    /\ arg \in {[latlngs |-> l, at |-> LatLng(y, x)] :
                  l \in Polylines(MaxVerts) \ {<<>>}, x \in 0..MaxX, y \in {0, 1}}
    /\ res = [done |-> FALSE]

SplitCall ==
    /\ ~res.done
    /\ res' = [done |-> TRUE,
               items |-> split_polyline(<<create_polyline(arg.latlngs, "water_table")>>,
                                        1, arg.at.lng, arg.at.lat)]
    /\ UNCHANGED <<session_vars, arg>>

SpecSplit == SplitInit /\ [][SplitCall]_vars

\* Sets of up to two layers, each a line of one or two vertices of either kind
RoundTripSets ==
    LET layers == {create_polyline(l, k) :
                       l \in Polylines(2) \ {<<>>}, k \in KindInputs}
    IN  UNION { [1..n -> layers] : n \in 0..2 }

RoundTripInit ==
    /\ phase = "ready"
    /\ drawn_items \in RoundTripSets
    /\ meta \in {[SessionMeta(xs) EXCEPT !.difficulty = "easy"] : xs \in {1, 2, 3}}
    /\ data_saved = FALSE
    /\ message = <<>>
    /\ in_flight = 0
    /\ reader_pending = 0
    /\ stray_markers = FALSE
    /\ submit_snapshot = NoSnapshot
    /\ arg = [items |-> drawn_items]
    /\ res = [stage |-> "start", doc |-> <<>>]

\* The set is exported ...
RoundTripExport ==
    /\ res.stage = "start"
    /\ res' = [stage |-> "exported", doc |-> make_feature_save_json(drawn_items, meta)]
    /\ UNCHANGED <<session_vars, arg>>

\* ... and the exported document loaded into the session
RoundTripImport ==
    /\ res.stage = "exported"
    /\ LET r == load_digitized_inner(res.doc, meta, drawn_items, stray_markers)
       IN  /\ meta' = r.meta
           /\ drawn_items' = r.drawn_items
           /\ stray_markers' = r.stray_markers
           /\ message' = <<r.message>>
    /\ res' = [res EXCEPT !.stage = "imported"]
    /\ UNCHANGED <<phase, data_saved, in_flight, reader_pending, submit_snapshot, arg>>

SpecRoundTrip == RoundTripInit /\ [][RoundTripExport \/ RoundTripImport]_vars

\* Features of a document to load: lines with a registered kind, with no kind
\* (undefined or null) or with a kind the registry has not, under a name of the
\* registry or another; and a point
ImportFeatures ==
    {LineFeature(xs, kind, name) :
         xs \in {<<0, 1>>, <<3, 1>>},
         kind \in {"crevasse", Undefined, Null, "glacier"},
         name \in {"Water table", "Crevasse", "Unknown"}}
    \cup {PointFeature}

\* Documents of up to two features, of this radargram or of another
ImportDocs ==
    {Document(key, 4, 2, "easy", "c", feats) :
         key \in {"a", "b"},
         feats \in UNION { [1..n -> ImportFeatures] : n \in 0..2 }}

\* What drawn_items holds when the document arrives: up to two layers, with or
\* without issues, on the map or split away
ImportSets ==
    LET layers == { create_polyline(<<LatLng(0, 0), LatLng(0, 2)>>, "hyperbola"),
                    create_polyline(<<LatLng(0, 0), LatLng(0, 2), LatLng(0, 1)>>,
                                    "hyperbola"),
                    [create_polyline(<<LatLng(0, 0), LatLng(0, 2)>>, "hyperbola")
                        EXCEPT !.on_map = FALSE] }
    IN  UNION { [1..n -> layers] : n \in 0..2 }

ImportInit ==
    /\ phase = "ready"
    /\ drawn_items \in ImportSets
    /\ meta \in {SessionMeta(xs) : xs \in {1, 2}}
    /\ data_saved = FALSE
    /\ message = <<>>
    /\ in_flight = 0
    /\ reader_pending = 0
    /\ stray_markers = FALSE
    /\ submit_snapshot = NoSnapshot
    /\ arg \in {[doc |-> d, before |-> drawn_items] : d \in ImportDocs}
    /\ res = [done |-> FALSE]

\* load_digitized_inner(arg.doc, meta, drawn_items)
ImportCall ==
    /\ ~res.done
    /\ LET r == load_digitized_inner(arg.doc, meta, drawn_items, stray_markers)
       IN  /\ meta' = r.meta
           /\ drawn_items' = r.drawn_items
           /\ stray_markers' = r.stray_markers
           /\ message' = <<r.message>>
    /\ res' = [done |-> TRUE]
    /\ UNCHANGED <<phase, data_saved, in_flight, reader_pending, submit_snapshot, arg>>

SpecImport == ImportInit /\ [][ImportCall]_vars

-----------------------------------------------------------------------------
(* Claims *)

\* The pre-submit conditions of the specification on a session
difficulty_chosen(m) == m.difficulty \notin {Undefined, Null}

all_valid(items) ==
    \A i \in 1..Len(items) : validate_polyline(items[i].latlngs) = <<>>

\* C1: the POST to /submit-digitized is never sent from a state in which no
\* difficulty is set, or drawn_items is empty, or a fresh validation of some
\* layer returns issues.
C1_GateBlocksPost ==
    [][in_flight' > in_flight =>
         /\ difficulty_chosen(meta)
         /\ Len(drawn_items) > 0
         /\ all_valid(drawn_items)]_vars

NotLoggedIn ==
    user_message("Not logged in! Please save the data, log in, and try again.",
                 "error")

\* C2: when the submit is answered with 401 the outcome is the not-logged-in
\* error, and drawn_items and data_saved are as they were immediately before
\* the submit was clicked (no other handler having run since the click).
C2_Unauthorized_Unchanged ==
    (submit_snapshot.taken /\ message = <<NotLoggedIn>>) =>
        /\ drawn_items = submit_snapshot.drawn_items
        /\ data_saved = submit_snapshot.data_saved

\* C3: after a split of the layer at p, drawn_items is what it was without the
\* layer at p, followed by the two children.
C3_SplitReplacesParent ==
    [][\A p \in 1..(MaxLayers + 1), at \in SplitPoints :
          Split(p, at) =>
              /\ Len(drawn_items') = Len(drawn_items) + 1
              /\ SubSeq(drawn_items', 1, Len(drawn_items) - 1)
                     = RemoveAt(drawn_items, p)]_vars

\* The document is of another radargram or of other dimensions than the session
DocDiffers(data, m) ==
    \/ data.radar_key # m.radar_key
    \/ data.width # m.width
    \/ data.height # m.height

\* The features of a document that are lines
LineStrings(data) ==
    SelectSeq(data.features.features, LAMBDA f : f.geometry.type = "LineString")

\* C4: a document with a feature that is not a LineString loads every
\* LineString feature it holds, those listed after the other feature too, and
\* the skipped feature is reported once.
C4_OnlyNonLineSkipped ==
    [][\A data \in FileDocs :
          (/\ ReaderOnload(data)
           /\ ~DocDiffers(data, meta)
           /\ Len(LineStrings(data)) < Len(data.features.features)) =>
              /\ Len(drawn_items') = Len(LineStrings(data))
              /\ Len(message') = 1
              /\ message'[1].feedback = "error"]_vars

\* C5: a submit answered with a status that is neither a success nor 401
\* yields an error message, never a success message.
C5_FailureIsError ==
    [][\A response \in Responses :
          (/\ SubmitAnswered(response)
           /\ response.status \notin {0, 200, 401}) =>
              message'[1].feedback = "error"]_vars

Sign(n) == IF n > 0 THEN 1 ELSE IF n < 0 THEN -1 ELSE 0

\* sign(last.x - first.x) and sign(v[i].x - v[i-1].x) of a vertex sequence
\* (i the JavaScript index)
Direction(l) == Sign(l[Len(l)].lng - l[1].lng)
PairSign(l, i) == Sign(l[i + 1].lng - l[i].lng)

\* C6 as stated: validate returns no issue if and only if every consecutive
\* pair has the sign of last.x - first.x (fewer than 2 vertices: no issue).
C6_ValidIffPairsAlong ==
    res.done =>
        LET l == arg.latlngs
        IN  (res.issues = <<>>) <=>
                (Len(l) < 2 \/ \A i \in 1..(Len(l) - 1) : PairSign(l, i) = Direction(l))

\* C6 as amended: validate returns no issue if and only if the sequence has
\* fewer than 2 vertices, or first.x differs from last.x and every consecutive
\* pair has the sign of last.x - first.x.
C6_ValidIffStrictlyMonotonic ==
    res.done =>
        LET l == arg.latlngs
        IN  (res.issues = <<>>) <=>
                \/ Len(l) < 2
                \/ /\ Direction(l) # 0
                   /\ \A i \in 1..(Len(l) - 1) : PairSign(l, i) = Direction(l)

C6_Witness ==
    /\ res.done
    /\ Len(arg.latlngs) >= 3
    /\ Direction(arg.latlngs) = -1
    /\ res.issues = <<>>

\* The issues are the indices of the set flagged, one each, ascending
IssuesAre(issues, flagged) ==
    /\ Len(issues) = Cardinality(flagged)
    /\ \A k \in 1..Len(issues) : issues[k] \in flagged
    /\ \A k \in 1..(Len(issues) - 1) : issues[k] < issues[k + 1]

\* C7 as stated: the issues name, once each and in ascending order, the
\* indices i whose pair (i-1, i) has not the sign of last.x - first.x.
C7_IssuesAgainstSign ==
    res.done =>
        LET l == arg.latlngs
        IN  IF Len(l) < 2
            THEN res.issues = <<>>
            ELSE IssuesAre(res.issues,
                     {i \in 1..(Len(l) - 1) : PairSign(l, i) # Direction(l)})

\* C7 as amended: the issues name, once each and in ascending order, the
\* indices i whose pair (i-1, i) does not move strictly in the line's direction,
\* increasing when first.x < last.x and decreasing otherwise (first.x = last.x
\* included); [(0,0),(5,0),(3,0)] gives one issue, naming index 2.
C7_IssuesAgainstDirection ==
    /\ validate_polyline(<<LatLng(0, 0), LatLng(0, 5), LatLng(0, 3)>>) = <<2>>
    /\ res.done =>
        LET l == arg.latlngs
            dir == IF l[1].lng < l[Len(l)].lng THEN 1 ELSE -1
        IN  IF Len(l) < 2
            THEN res.issues = <<>>
            ELSE IssuesAre(res.issues,
                     {i \in 1..(Len(l) - 1) : PairSign(l, i) # dir})

C7_Witness ==
    /\ res.done
    /\ Len(arg.latlngs) = 4
    /\ Direction(arg.latlngs) = 1
    /\ Len(res.issues) = 2
    /\ res.issues[1] > 1

\* C8: loading a document whose radar_key, width or height differs from the
\* session's reports an error and leaves drawn_items and the session's meta
\* (difficulty and comment with it) as they were; at start-up, where the same
\* step completes setup_map, meta changes only as setup_map changes it.
C8_MismatchChangesNothing ==
    [][/\ \A data \in FileDocs :
             (ReaderOnload(data) /\ DocDiffers(data, meta)) =>
                 /\ drawn_items' = drawn_items
                 /\ meta' = meta
                 /\ stray_markers' = stray_markers
                 /\ Len(message') = 1
                 /\ message'[1].feedback = "error"
       /\ \A latest \in LatestDocs, radio \in Difficulties \cup {Null} :
             (LatestLoaded(latest, radio) /\ DocDiffers(latest, meta)) =>
                 /\ drawn_items' = drawn_items
                 /\ meta' = setup_difficulty(meta, radio)
                 /\ message'[1].feedback = "error"]_vars

C8_Witness ==
    /\ Len(message) = 1
    /\ message[1].text = "Error loading data: height does not align with expected height"
    /\ Len(drawn_items) = 2
    /\ meta.comment = "c"
    /\ meta.difficulty = "easy"

\* Every x of the document is a whole number or a half: the division by xscale
\* was exact in binary floating point
ExactDivision(doc) ==
    \A f \in 1..Len(doc.features.features) :
        \A k \in 1..Len(doc.features.features[f].geometry.coordinates) :
            doc.features.features[f].geometry.coordinates[k][1].d \in {1, 2}

\* C9: exporting a set, the division by xscale being exact, and loading the
\* exported document into the session gives as many layers, in the same order,
\* each of the kind and with the vertices of the layer it was exported from.
C9_RoundTrip ==
    (res.stage = "imported" /\ ExactDivision(res.doc)) =>
        /\ Len(drawn_items) = Len(arg.items)
        /\ \A i \in 1..Len(arg.items) :
               /\ drawn_items[i].latlngs = arg.items[i].latlngs
               /\ drawn_items[i].properties.kind = arg.items[i].properties.kind

C9_Witness ==
    /\ res.stage = "imported"
    /\ meta.xscale = 2
    /\ Len(drawn_items) = 2
    /\ drawn_items[1].properties.kind # drawn_items[2].properties.kind
    /\ drawn_items[1].latlngs = <<LatLng(0, 3), LatLng(0, 1)>>
    /\ res.doc.features.features[1].geometry.coordinates[1][1] = [n |-> 3, d |-> 2]

\* The vertices of v at the positions in S, in order
SubAt(v, S) ==
    LET idx == SelectSeq([k \in 1..Len(v) |-> k], LAMBDA k : k \in S)
    IN  [j \in 1..Len(idx) |-> v[idx[j]]]

\* c is the vertices of v at the positions S, in order, with cut added at most
\* once
RunWithCut(c, v, S, cut) ==
    \/ c = SubAt(v, S)
    \/ \E pos \in 1..Len(c) : c[pos] = cut /\ RemoveAt(c, pos) = SubAt(v, S)

\* C10: the two children of a split hold between them every vertex of the
\* parent, each in exactly one child and in the parent's order, and nothing
\* besides but the split point; [(0,0),(2,0),(4,0),(6,0)] split at x = 3 gives
\* [(0,0),(2,0),(3,0)] and [(3,0),(4,0),(6,0)].
C10_SplitPartitions ==
    /\ LET d == split_polyline(
                    <<create_polyline(<<LatLng(0, 0), LatLng(0, 2), LatLng(0, 4),
                                        LatLng(0, 6)>>, "crevasse")>>, 1, 3, 0)
       IN  /\ d[2].latlngs = <<LatLng(0, 0), LatLng(0, 2), LatLng(0, 3)>>
           /\ d[3].latlngs = <<LatLng(0, 3), LatLng(0, 4), LatLng(0, 6)>>
    /\ res.done =>
        LET v == arg.latlngs
        IN  \E S \in SUBSET (1..Len(v)) :
               /\ RunWithCut(res.items[2].latlngs, v, S, arg.at)
               /\ RunWithCut(res.items[3].latlngs, v, (1..Len(v)) \ S, arg.at)

\* A draw event (create, edit, delete) or a step of a file load happens
DrawEvent ==
    \/ \E coords \in DrawLines, kind \in KindInputs : Created(coords, kind)
    \/ \E p \in 1..(MaxLayers + 1), coords \in DrawLines : Edited(p, coords)
    \/ \E p \in 1..(MaxLayers + 1) : Deleted(p)

FileLoadEvent ==
    \/ LoadChange(TRUE)
    \/ \E data \in FileDocs : ReaderOnload(data)

\* The answer is a success: HTTP 200 with a JSON body
Succeeds(response) == response.status = 200 /\ response.json

\* C11: after every create, edit, delete or file load the unsaved-changes flag
\* is set (data_saved is FALSE); once set it is cleared only by a save of a
\* non-empty set or by a submit, and a submit that does not succeed leaves it
\* set; leaving the page is warned about exactly when the flag is set.
C11_DirtyAfterChange ==
    [][/\ (DrawEvent \/ FileLoadEvent) => ~data_saved'
       /\ (~data_saved /\ data_saved') => (Save \/ SubmitSent)
       /\ \A response \in Responses :
             (/\ SubmitAnswered(response) /\ ~Succeeds(response)
              /\ submit_snapshot.taken /\ ~submit_snapshot.data_saved) => ~data_saved'
       /\ beforeunload(data_saved') <=> ~data_saved']_vars

\* The layer's kind is a key of the registry and its color and name are the
\* registry's for that kind
Registered(layer) ==
    /\ layer.properties.kind \in DOMAIN get_layer_classes
    /\ layer.properties.color = get_layer_classes[layer.properties.kind].color
    /\ layer.properties.name = get_layer_classes[layer.properties.kind].name

\* C12: in every reachable state every layer of drawn_items has a kind that is
\* a key of the registry, and that kind's color and name.
C12_KindsRegistered ==
    \A i \in 1..Len(drawn_items) : Registered(drawn_items[i])

\* C15: at most one POST to /submit-digitized is unanswered at any time.
C15_OneSubmitInFlight == in_flight <= 1

\* C16: a submit rejected by the gate, a submit declined at the confirmation, a
\* save of an empty set, and a submit answered with a failure other than 401 or
\* not answered at all (SubmitFailed, TransportError) leave data_saved as it
\* was before the click.
C16_OnlySuccessClears ==
    [][/\ (SubmitRejected \/ SubmitDeclined) => data_saved' = data_saved
       /\ (Save /\ Len(drawn_items) = 0) => data_saved' = data_saved
       /\ \A response \in Responses :
             (/\ SubmitAnswered(response)
              /\ response.status # 401 /\ ~Succeeds(response)
              /\ submit_snapshot.taken) =>
                 data_saved' = submit_snapshot.data_saved]_vars

\* C19: a reclassification to a kind that is not a key of the registry leaves
\* the layer's kind, color and name as they were.
C19_UnknownKindChangesNothing ==
    [][\A p \in 1..(MaxLayers + 1), new_kind \in TargetKeys :
          (Reclassify(p, new_kind) /\ new_kind \notin DOMAIN get_layer_classes) =>
              drawn_items'[p].properties = drawn_items[p].properties]_vars

\* The feature is a line whose properties carry a kind of the registry
RegisteredLine(f) ==
    /\ f.geometry.type = "LineString"
    /\ f.properties.kind \in DOMAIN get_layer_classes

\* The display vertices of a document line: x times xscale
DisplayVertices(f, xscale) ==
    [k \in 1..Len(f.geometry.coordinates) |->
        [lat |-> f.geometry.coordinates[k][2],
         lng |-> (f.geometry.coordinates[k][1].n * xscale)
                     \div f.geometry.coordinates[k][1].d]]

\* C13: after loading a document of this radargram whose features are all
\* lines with registered kinds, drawn_items holds exactly one layer per feature
\* of the document, in the document's order, and none of the layers it held
\* before.
C13_ImportReplaces ==
    LET feats == arg.doc.features.features
    IN  (/\ res.done /\ ~DocDiffers(arg.doc, meta)
         /\ \A i \in 1..Len(feats) : RegisteredLine(feats[i])) =>
            /\ Len(drawn_items) = Len(feats)
            /\ \A i \in 1..Len(feats) :
                  /\ drawn_items[i].latlngs = DisplayVertices(feats[i], meta.xscale)
                  /\ drawn_items[i].properties.kind = feats[i].properties.kind
                  /\ drawn_items[i].on_map
                  /\ \A j \in 1..Len(arg.before) : drawn_items[i] # arg.before[j]

C13_Witness ==
    /\ res.done
    /\ Len(arg.before) = 2
    /\ ~arg.before[1].on_map
    /\ arg.before[2].issue_markers > 0
    /\ Len(arg.doc.features.features) = 2
    /\ Len(drawn_items) = 2
    /\ drawn_items[1].latlngs # drawn_items[2].latlngs
    /\ drawn_items[1].properties.kind = "crevasse"
    /\ meta.xscale = 2
    /\ message = <<user_message("Loaded line(s)", Null)>>

\* k is the registry key whose name the feature carries
NamesKind(f, k) ==
    k \in DOMAIN get_layer_classes /\ get_layer_classes[k].name = f.properties.name

\* The import loads the feature when it reaches it: a line whose kind is
\* registered or, when it carries none, whose name is a registry name
Loadable(f) ==
    /\ f.geometry.type = "LineString"
    /\ IF f.properties.kind \in {Undefined, Null}
       THEN \E k \in DOMAIN get_layer_classes : NamesKind(f, k)
       ELSE f.properties.kind \in DOMAIN get_layer_classes

\* C20: a loaded feature whose properties carry no kind and whose name is the
\* registry's name of kind k becomes a layer of kind k, with k's color and
\* name; a loaded feature whose properties carry a kind becomes a layer of that
\* kind, whatever its name.
C20_KindFromNameOnlyIfAbsent ==
    LET feats == arg.doc.features.features
    IN  (res.done /\ ~DocDiffers(arg.doc, meta)) =>
            \A i \in 1..Len(feats) :
                (\A h \in 1..i : Loadable(feats[h])) =>
                    /\ Len(drawn_items) >= i
                    /\ IF feats[i].properties.kind \in {Undefined, Null}
                       THEN NamesKind(feats[i], drawn_items[i].properties.kind)
                       ELSE drawn_items[i].properties.kind = feats[i].properties.kind
                    /\ Registered(drawn_items[i])

C20_Witness ==
    /\ res.done
    /\ Len(arg.doc.features.features) = 2
    /\ arg.doc.features.features[1].properties.kind = Undefined
    /\ arg.doc.features.features[1].properties.name = "Water table"
    /\ arg.doc.features.features[2].properties.kind = "crevasse"
    /\ arg.doc.features.features[2].properties.name = "Water table"
    /\ Len(drawn_items) = 2
    /\ drawn_items[1].properties.kind = "water_table"
    /\ drawn_items[2].properties.name = "Crevasse"

\* C14: the document a save or a submit makes holds one LineString per layer
\* of drawn_items, in insertion order, each with the layer's vertices as
\* [x / xscale, y] and the layer's properties (kind, name, color, issues).
C14_ExportHoldsWholeSet ==
    submit_snapshot.doc # NoDocument =>
        LET feats == submit_snapshot.doc.features.features
        IN  /\ Len(feats) = Len(drawn_items)
            /\ \A i \in 1..Len(drawn_items) :
                  /\ feats[i].geometry.type = "LineString"
                  /\ feats[i].properties = drawn_items[i].properties
                  /\ Len(feats[i].geometry.coordinates) = Len(drawn_items[i].latlngs)
                  /\ \A k \in 1..Len(drawn_items[i].latlngs) :
                        LET c == feats[i].geometry.coordinates[k]
                        IN  /\ c[1].n * meta.xscale = drawn_items[i].latlngs[k].lng * c[1].d
                            /\ c[2] = drawn_items[i].latlngs[k].lat

C14_Witness ==
    /\ submit_snapshot.doc # NoDocument
    /\ meta.xscale = 2
    /\ Len(drawn_items) = 3
    /\ ~drawn_items[1].on_map
    /\ drawn_items[2].properties.issues # <<>>
    /\ drawn_items[2].properties.kind # drawn_items[3].properties.kind
    /\ submit_snapshot.doc.features.features[3].geometry.coordinates[1][1] = [n |-> 1, d |-> 2]

\* point is the first or the last vertex of c
Endpoint(c, point) == Len(c) > 0 /\ (c[1] = point \/ c[Len(c)] = point)

\* C17 as stated: for every line and every split point, the split point is an
\* endpoint of each of the two children.
C17_CutEndsBothChildren ==
    res.done =>
        /\ Endpoint(res.items[2].latlngs, arg.at)
        /\ Endpoint(res.items[3].latlngs, arg.at)

\* x never moves against the direction from the first to the last vertex
WeaklyMonotonic(l) ==
    \A i \in 1..(Len(l) - 1) : PairSign(l, i) \in {0, Direction(l)}

\* x lies strictly between the x of the first and of the last vertex
StrictlyInside(l, x) ==
    \/ l[1].lng < x /\ x < l[Len(l)].lng
    \/ l[Len(l)].lng < x /\ x < l[1].lng

\* C17 as amended: for every line whose x never moves against its direction
\* and every split point whose x lies strictly between the x of the line's
\* first and last vertex, the split point is an endpoint of each of the two
\* children.
C17_CutEndsChildrenOfMonotonic ==
    (/\ res.done /\ WeaklyMonotonic(arg.latlngs)
     /\ StrictlyInside(arg.latlngs, arg.at.lng)) =>
        /\ Len(res.items) = 3
        /\ Endpoint(res.items[2].latlngs, arg.at)
        /\ Endpoint(res.items[3].latlngs, arg.at)

C17_Witness ==
    /\ res.done
    /\ Len(arg.latlngs) = 4
    /\ arg.latlngs[1].lng > arg.latlngs[4].lng
    /\ arg.latlngs[2].lng = arg.latlngs[3].lng
    /\ arg.latlngs[2].lng = arg.at.lng
    /\ StrictlyInside(arg.latlngs, arg.at.lng)
    /\ arg.at.lat = 1
    /\ res.items[2].latlngs[1] = arg.at
    /\ res.items[3].latlngs[Len(res.items[3].latlngs)] = arg.at

\* C18: a reclassification to a registered kind gives the layer that kind and
\* the registry's color and name for it, and leaves its vertices, its stored
\* issues, every other layer and the membership of drawn_items as they were.
C18_ReclassifyFrame ==
    [][\A p \in 1..(MaxLayers + 1), new_kind \in DOMAIN get_layer_classes :
          Reclassify(p, new_kind) =>
              /\ Len(drawn_items') = Len(drawn_items)
              /\ \A q \in 1..Len(drawn_items) : q # p => drawn_items'[q] = drawn_items[q]
              /\ drawn_items'[p].properties.kind = new_kind
              /\ Registered(drawn_items'[p])
              /\ drawn_items'[p].latlngs = drawn_items[p].latlngs
              /\ drawn_items'[p].properties.issues = drawn_items[p].properties.issues
              /\ drawn_items'[p].issue_markers = drawn_items[p].issue_markers
              /\ drawn_items'[p].on_map = drawn_items[p].on_map]_vars

C18_Witness ==
    /\ Len(drawn_items) = 3
    /\ ~drawn_items[1].on_map
    /\ drawn_items[1].properties.kind = "water_table"
    /\ drawn_items[2].properties.kind = "crevasse"
    /\ drawn_items[2].properties.color = "#62F700"
    /\ drawn_items[2].properties.name = "Crevasse"
    /\ drawn_items[2].properties.issues # <<>>
    /\ drawn_items[3].properties.kind = "water_table"

\* C21: when the fetch of the latest submission is answered with {}, drawn_items,
\* the comment, the difficulty and data_saved are left as they were (the
\* difficulty then being taken from the radio buttons by setup_map when the
\* session has none).
C21_EmptyLatestChangesNothing ==
    [][\A radio \in Difficulties \cup {Null} :
          LatestNone(radio) =>
              /\ drawn_items' = drawn_items
              /\ stray_markers' = stray_markers
              /\ data_saved' = data_saved
              /\ meta'.comment = meta.comment
              /\ meta' = setup_difficulty(meta, radio)]_vars

C21_Witness ==
    /\ phase = "ready"
    /\ message = <<>>
    /\ Len(drawn_items) = 2
    /\ drawn_items[1].properties.kind # drawn_items[2].properties.kind
    /\ data_saved
    /\ meta.difficulty = Null
    /\ meta.comment = Undefined

\* C22: after a delete the layer is not in drawn_items, the other layers are,
\* and the markers validate made for the deleted layer are off the map.
C22_DeleteRemovesMarkers ==
    [][\A p \in 1..(MaxLayers + 1) :
          Deleted(p) =>
              /\ drawn_items' = RemoveAt(drawn_items, p)
              /\ stray_markers' = stray_markers]_vars

C22_Witness ==
    /\ Len(drawn_items) = 2
    /\ ~drawn_items[1].on_map
    /\ drawn_items[1].issue_markers > 0
    /\ drawn_items[2].on_map
    /\ drawn_items[2].issue_markers > 0
    /\ ~stray_markers

\* C23: in every reachable state the issues stored on each layer of
\* drawn_items are what validate_polyline returns for its vertices.
C23_StoredIssuesFresh ==
    \A i \in 1..Len(drawn_items) :
        drawn_items[i].properties.issues = validate_polyline(drawn_items[i].latlngs)

C23_Witness ==
    /\ Len(drawn_items) = 3
    /\ ~drawn_items[1].on_map
    /\ drawn_items[1].properties.issues = <<>>
    /\ drawn_items[2].properties.issues = <<2>>
    /\ drawn_items[3].properties.issues = <<>>

\* What a set says about the radargram: the vertices and the properties of its
\* layers, in order
Annotations(items) ==
    [i \in 1..Len(items) |->
        [latlngs |-> items[i].latlngs, properties |-> items[i].properties]]

\* C24: every step that changes drawn_items or a layer in it (its vertices,
\* kind, color, name or issues), a split or a reclassification included,
\* leaves data_saved FALSE.
C24_ChangeSetsDirty ==
    [][Annotations(drawn_items') # Annotations(drawn_items) => ~data_saved']_vars

\* The layers equal, in order, the lines of the document
HoldsAllLines(items, data, xscale) ==
    /\ Len(items) = Len(LineStrings(data))
    /\ \A i \in 1..Len(items) :
          items[i].latlngs = DisplayVertices(LineStrings(data)[i], xscale)

\* C25: when the import of a document of this radargram ends, drawn_items
\* holds all the line features of the document or is what it was before.
C25_ImportAllOrNothing ==
    (res.done /\ ~DocDiffers(arg.doc, meta)) =>
        \/ HoldsAllLines(drawn_items, arg.doc, meta.xscale)
        \/ drawn_items = arg.before

\* C26: the two children of a split of a line without issues, at an x strictly
\* between the x of its first and last vertex, have no issues.
C26_SplitKeepsValid ==
    (/\ res.done /\ Len(arg.latlngs) >= 2
     /\ \A i \in 1..(Len(arg.latlngs) - 1) :
           PairSign(arg.latlngs, i) = Direction(arg.latlngs)
     /\ StrictlyInside(arg.latlngs, arg.at.lng)) =>
        /\ res.items[2].properties.issues = <<>>
        /\ res.items[3].properties.issues = <<>>

\* C27: no issue marker is on the map but those of the layers of drawn_items
\* that are on the map, and each layer has as many markers as stored issues.
C27_MarkersBelong ==
    /\ ~stray_markers
    /\ \A i \in 1..Len(drawn_items) :
          /\ drawn_items[i].issue_markers = Len(drawn_items[i].properties.issues)
          /\ ~drawn_items[i].on_map => drawn_items[i].issue_markers = 0

\* The fields of a document but date_modified
Undated(doc) ==
    [height |-> doc.height, width |-> doc.width, difficulty |-> doc.difficulty,
     comment |-> doc.comment, radar_key |-> doc.radar_key, features |-> doc.features]

\* C28: a save or a submit leaves the vertices and properties of every layer
\* and the session's metadata as they were, and a save or submit right after
\* another makes the same document but for date_modified.
C28_ExportIsPure ==
    [][(Save \/ SubmitSent) =>
          /\ Annotations(drawn_items') = Annotations(drawn_items)
          /\ meta' = meta
          /\ (/\ submit_snapshot.doc # NoDocument
              /\ submit_snapshot'.doc # NoDocument) =>
                 Undated(submit_snapshot'.doc) = Undated(submit_snapshot.doc)]_vars

C28_Witness ==
    /\ in_flight = 2
    /\ submit_snapshot.taken
    /\ submit_snapshot.data_saved
    /\ Len(drawn_items) = 3
    /\ submit_snapshot.doc.features.features[3].geometry.coordinates[1][1] = [n |-> 1, d |-> 2]
    /\ drawn_items[3].latlngs[1].lng = 1

====
